---- MODULE Spec2Model ----
(***************************************************************************)
(* Model of src/app.py: the movie form (budget, genres, actors, director,  *)
(* release month), the feature vectors built for the success and revenue   *)
(* models, the outcome-based reasoning list and the improvement            *)
(* suggestions.                                                            *)
(*                                                                         *)
(* The script is re-executed top to bottom on every interaction: a widget  *)
(* change re-renders the form with the button reading False (no results    *)
(* panel), a click on the button runs the handler of lines 69-190 once.    *)
(*                                                                         *)
(* Real numbers are kept exact: a month strength is a pair <<num, den>>    *)
(* with den > 0, so that the table mean sum/len is represented without     *)
(* rounding.  A probability is kept in thousandths.  A multiselect returns *)
(* a list of distinct options; the handler only tests membership and       *)
(* counts, so a selection is kept as a set.                                *)
(***************************************************************************)
EXTENDS Integers, Sequences, FiniteSets, TLC

VARIABLES
    \* artifacts loaded at lines 8-14
    genre_classes_success, genre_classes_revenue, monthly_revenue,
    top_actors, top_directors,
    \* form widgets, lines 37-65
    budget, genres_input, actors_input, director_input, release_month,
    \* results of the handler, lines 69-190 (shown = the button read True)
    shown, input_success, input_revenue, actor_count, known_director,
    success_pred, success_prob, predicted_revenue, month_strength,
    reasons, suggestions_header, suggestions,
    \* history variable: one earlier submission, kept for comparison
    remembered

artifacts == <<genre_classes_success, genre_classes_revenue, monthly_revenue,
               top_actors, top_directors>>
form == <<budget, genres_input, actors_input, director_input, release_month>>
outputs == <<shown, input_success, input_revenue, actor_count, known_director,
             success_pred, success_prob, predicted_revenue, month_strength,
             reasons, suggestions_header, suggestions>>
vars == <<artifacts, form, outputs, remembered>>

----------------------------------------------------------------------------
\* Program constants

MinBudget == 1000000
DefaultBudget == 30000000
BudgetThreshold == 50000000
MaxSelections == 3
ActorThreshold == 2
\* 0.6, in thousandths
ProbThreshold == 600
Months == 1..12

----------------------------------------------------------------------------
\* Artifact contents and input domains explored

GenresSuccess == <<"Action", "Comedy">>
GenresRevenue == <<"Action", "Horror">>
ActorList == {"Denzel", "Meryl", "Tom"}
DirectorList == {"Nolan"}

\* monthly_revenue is a Series: (month, strength) rows in index order
TableFull == << <<1, 3>>, <<2, 2>>, <<3, 2>>, <<4, 3>>, <<5, 5>>, <<6, 7>>,
                <<7, 8>>, <<8, 4>>, <<9, 2>>, <<10, 3>>, <<11, 6>>, <<12, 7>> >>
TableSparse == << <<3, 1>>, <<7, 2>>, <<12, 5>> >>
TableTied == << <<6, 4>>, <<2, 2>>, <<1, 4>>, <<7, 3>>, <<11, 2>> >>
Tables == {TableFull, TableSparse, TableTied}

BudgetChoices == {DefaultBudget, BudgetThreshold}
ProbChoices == {ProbThreshold - 1, ProbThreshold}
RevenueChoices == {0, 75000000}

\* the reduced domains of the frame specification
FrameBudgets == BudgetChoices
FrameGenres == {"Comedy"}
FrameActors == {"None", "Tom"}
FrameDirectors == {"None", "Nolan"}
FrameMonths == {1, 7}
FrameRevenues == {75000000}

----------------------------------------------------------------------------
\* Exact arithmetic on strengths

RatLess(a, b) == a[1] * b[2] < b[1] * a[2]
RatEq(a, b) == a[1] * b[2] = b[1] * a[2]
RatGeq(a, b) == ~RatLess(a, b)

RECURSIVE SumValues(_)
SumValues(table) ==
    IF table = << >> THEN 0 ELSE Head(table)[2] + SumValues(Tail(table))

\* monthly_revenue.mean()
Mean(table) == <<SumValues(table), Len(table)>>

\* the lookup without its fallback: a missing month reads as nothing
GetNoDefault(table, key, default) ==
    IF \E i \in 1..Len(table) : table[i][1] = key
    THEN LET i == CHOOSE j \in 1..Len(table) : table[j][1] = key
         IN  <<table[i][2], 1>>
    ELSE <<0, 1>>

\* monthly_revenue.get(key, default)
Get(table, key, default) ==
    IF \E i \in 1..Len(table) : table[i][1] = key
    THEN LET i == CHOOSE j \in 1..Len(table) : table[j][1] = key
         IN  <<table[i][2], 1>>
    ELSE default

\* idxmin in place of idxmax
IdxMin(table) ==
    LET i == CHOOSE j \in 1..Len(table) :
                 /\ \A k \in 1..Len(table) : table[k][2] >= table[j][2]
                 /\ \A k \in 1..(j - 1) : table[k][2] > table[j][2]
    IN  table[i][1]

\* monthly_revenue.idxmax(): the label of the first row holding the maximum
IdxMax(table) ==
    LET i == CHOOSE j \in 1..Len(table) :
                 /\ \A k \in 1..Len(table) : table[k][2] <= table[j][2]
                 /\ \A k \in 1..(j - 1) : table[k][2] < table[j][2]
    IN  table[i][1]

----------------------------------------------------------------------------
\* Feature encoding

\* f'genre_{g}'
GenreColumn(g) == "genre_" \o g

Columns(vec) == {vec[i].col : i \in 1..Len(vec)}

\* every indicator set as soon as anything is selected
GenresFrameAny(classes, selection) ==
    [i \in 1..Len(classes) |->
        [col |-> GenreColumn(classes[i]),
         val |-> IF selection # {} THEN 1 ELSE 0]]

\* binarizer.transform([genres_input]) framed with the genre column names
GenresFrame(classes, selection) ==
    [i \in 1..Len(classes) |->
        [col |-> GenreColumn(classes[i]),
         val |-> IF classes[i] \in selection THEN 1 ELSE 0]]

\* for col in classes_: if the column is missing, add it holding 0
RECURSIVE FillMissing(_, _)
FillMissing(vec, classes) ==
    IF classes = << >> THEN vec
    ELSE LET c == GenreColumn(Head(classes))
             next == IF c \notin Columns(vec)
                     THEN Append(vec, [col |-> c, val |-> 0])
                     ELSE vec
         IN  FillMissing(next, Tail(classes))

\* the two leading columns, then concat(axis=1) with the genre frame
BaseFrame(b, m, table) ==
    << [col |-> "budget", val |-> b],
       [col |-> "release_month_strength", val |-> Get(table, m, Mean(table))] >>

\* the sentinel zeroes the count only when it is the whole selection
ActorCountSentinelAlone(actors, top) ==
    IF actors = {"None"} \/ actors = {}
    THEN 0
    ELSE Cardinality({a \in actors : a \in top})

ActorCount(actors, top) ==
    IF "None" \in actors \/ actors = {}
    THEN 0
    ELSE Cardinality({a \in actors : a \in top})

KnownDirector(director, top) ==
    IF director = "None" THEN 0
    ELSE IF director \in top THEN 1 ELSE 0

InputSuccess(b, m, g, ac, kd, table, classes) ==
    FillMissing(BaseFrame(b, m, table) \o GenresFrame(classes, g), classes)
        \o << [col |-> "top_actor_count", val |-> ac],
              [col |-> "known_director", val |-> kd] >>

\* the revenue vector built with the success model's binarizer
InputRevenueCopied(b, m, g, ac, kd, table, classes) ==
    FillMissing(BaseFrame(b, m, table) \o GenresFrame(genre_classes_success, g),
                genre_classes_success)
        \o << [col |-> "top_actor_count", val |-> ac],
              [col |-> "known_director", val |-> kd] >>

InputRevenue(b, m, g, ac, kd, table, classes) ==
    FillMissing(BaseFrame(b, m, table) \o GenresFrame(classes, g), classes)
        \o << [col |-> "top_actor_count", val |-> ac],
              [col |-> "known_director", val |-> kd] >>

----------------------------------------------------------------------------
\* Outcome explainer

Statement(kind, arg) == [kind |-> kind, arg |-> arg]

\* the list of the previous run carried over
ReasonsStartStale == reasons

\* reasons = []  (line 127)
ReasonsStart == << >>

AppendIf(cond, seq, stmt) == IF cond THEN Append(seq, stmt) ELSE seq

\* the branch of success_pred == 1: only strong points
StrongPoints(r0, b, m, ms, mean, ac, kd) ==
    LET r1 == AppendIf(b >= BudgetThreshold, r0, Statement("strong_budget", b))
        r2 == AppendIf(RatGeq(ms, mean), r1, Statement("strong_month", m))
        r3 == AppendIf(ac >= ActorThreshold, r2, Statement("strong_actors", ac))
        r4 == AppendIf(kd = 1, r3, Statement("strong_director", 0))
    IN  r4

\* the actor test of the weak branch off by one
WeakPointsLooseActors(r0, b, m, ms, mean, ac, kd) ==
    LET r1 == IF b < BudgetThreshold
              THEN Append(r0, [kind |-> "weak_budget", arg |-> b]) ELSE r0
        r2 == IF RatLess(ms, mean)
              THEN Append(r1, [kind |-> "weak_month", arg |-> m]) ELSE r1
        r3 == IF ac <= ActorThreshold
              THEN Append(r2, [kind |-> "weak_actors", arg |-> ac]) ELSE r2
        r4 == IF kd = 0
              THEN Append(r3, [kind |-> "weak_director", arg |-> 0]) ELSE r3
    IN  r4

\* the else branch: only weak points
WeakPoints(r0, b, m, ms, mean, ac, kd) ==
    LET r1 == AppendIf(b < BudgetThreshold, r0, Statement("weak_budget", b))
        r2 == AppendIf(RatLess(ms, mean), r1, Statement("weak_month", m))
        r3 == AppendIf(ac < ActorThreshold, r2, Statement("weak_actors", ac))
        r4 == AppendIf(kd = 0, r3, Statement("weak_director", 0))
    IN  r4

\* Lines 153-157.  The guard "if not reasons:" of line 153 has no body, and
\* the if/else of lines 154-157 stands at the indentation of the guard
\* itself, not inside it.  The interpreter refuses a guard without a body;
\* the model follows the layout of the statements: the generic statement of
\* the predicted label is appended whatever reasons holds.  Nothing else in
\* the handler reads the generic statement.
GenericFallback(r, pred) ==
    IF pred = 1
    THEN Append(r, Statement("generic_success", 0))
    ELSE Append(r, Statement("generic_failure", 0))

Reasons(pred, b, m, ms, mean, ac, kd) ==
    LET specific == IF pred = 1
                    THEN StrongPoints(ReasonsStart, b, m, ms, mean, ac, kd)
                    ELSE WeakPoints(ReasonsStart, b, m, ms, mean, ac, kd)
    IN  GenericFallback(specific, pred)

\* the threshold itself counted as below it
SuggestionsShownInclusive(prob) == prob <= ProbThreshold

\* if success_prob < 0.6: header, then the four independent suggestions
SuggestionsShown(prob) == prob < ProbThreshold

\* the variant without the director suggestion
SuggestionsNoDirector(prob, b, ms, table, ac, kd) ==
    IF ~(prob < ProbThreshold) THEN << >>
    ELSE
    LET s1 == IF b < BudgetThreshold
              THEN <<[kind |-> "suggest_budget", arg |-> 0]>> ELSE << >>
        s2 == IF RatLess(ms, Mean(table))
              THEN Append(s1, [kind |-> "suggest_month", arg |-> IdxMax(table)])
              ELSE s1
        s3 == IF ac < ActorThreshold
              THEN Append(s2, [kind |-> "suggest_actors", arg |-> 0]) ELSE s2
    IN  s3

Suggestions(prob, b, ms, table, ac, kd) ==
    IF ~SuggestionsShown(prob) THEN << >>
    ELSE
    LET s1 == AppendIf(b < BudgetThreshold, << >>, Statement("suggest_budget", 0))
        s2 == AppendIf(RatLess(ms, Mean(table)), s1,
                       Statement("suggest_month", IdxMax(table)))
        s3 == AppendIf(ac < ActorThreshold, s2, Statement("suggest_actors", 0))
        s4 == AppendIf(kd = 0, s3, Statement("suggest_director", 0))
    IN  s4

----------------------------------------------------------------------------
\* State machine

NoRecord == [none |-> TRUE]

\* the form values and model outputs of the submission on display
SubmissionInputs ==
    [budget |-> budget, genres |-> genres_input, actors |-> actors_input,
     director |-> director_input, month |-> release_month,
     pred |-> success_pred, prob |-> success_prob, revenue |-> predicted_revenue]

\* everything the submission on display produced
SubmissionResult ==
    [input_success |-> input_success, input_revenue |-> input_revenue,
     reasons |-> reasons, header |-> suggestions_header,
     suggestions |-> suggestions]

LoadArtifacts(tables) ==
    /\ genre_classes_success = GenresSuccess
    /\ genre_classes_revenue = GenresRevenue
    /\ monthly_revenue \in tables
    /\ top_actors = ActorList
    /\ top_directors = DirectorList

\* the first rendering of the form: widget defaults, button not pressed
NoResults ==
    /\ shown = FALSE
    /\ input_success = << >>
    /\ input_revenue = << >>
    /\ actor_count = 0
    /\ known_director = 0
    /\ success_pred = 0
    /\ success_prob = 0
    /\ predicted_revenue = 0
    /\ month_strength = <<0, 1>>
    /\ reasons = << >>
    /\ suggestions_header = FALSE
    /\ suggestions = << >>

FormDefaults ==
    /\ budget = DefaultBudget
    /\ genres_input = {}
    /\ actors_input = {}
    /\ director_input = "None"
    /\ release_month = 1

Init ==
    /\ LoadArtifacts(Tables)
    /\ FormDefaults
    /\ NoResults
    /\ remembered = NoRecord

\* a re-run caused by a widget: the button reads False, no results panel
Rerender ==
    /\ shown' = FALSE
    /\ input_success' = << >>
    /\ input_revenue' = << >>
    /\ actor_count' = 0
    /\ known_director' = 0
    /\ success_pred' = 0
    /\ success_prob' = 0
    /\ predicted_revenue' = 0
    /\ month_strength' = <<0, 1>>
    /\ reasons' = << >>
    /\ suggestions_header' = FALSE
    /\ suggestions' = << >>
    /\ UNCHANGED <<artifacts, remembered>>

\* options of the three selection widgets
GenreOptions == {genre_classes_success[i] : i \in 1..Len(genre_classes_success)}
ActorsDropdown == {"None"} \cup top_actors
DirectorDropdown == {"None"} \cup top_directors

SetBudget(b) ==
    /\ b >= MinBudget
    /\ b # budget
    /\ budget' = b
    /\ UNCHANGED <<genres_input, actors_input, director_input, release_month>>
    /\ Rerender

SelectGenre(g) ==
    /\ g \in GenreOptions \ genres_input
    /\ Cardinality(genres_input) < MaxSelections
    /\ genres_input' = genres_input \cup {g}
    /\ UNCHANGED <<budget, actors_input, director_input, release_month>>
    /\ Rerender

DeselectGenre(g) ==
    /\ g \in genres_input
    /\ genres_input' = genres_input \ {g}
    /\ UNCHANGED <<budget, actors_input, director_input, release_month>>
    /\ Rerender

SelectActor(a) ==
    /\ a \in ActorsDropdown \ actors_input
    /\ Cardinality(actors_input) < MaxSelections
    /\ actors_input' = actors_input \cup {a}
    /\ UNCHANGED <<budget, genres_input, director_input, release_month>>
    /\ Rerender

DeselectActor(a) ==
    /\ a \in actors_input
    /\ actors_input' = actors_input \ {a}
    /\ UNCHANGED <<budget, genres_input, director_input, release_month>>
    /\ Rerender

SelectDirector(d) ==
    /\ d \in DirectorDropdown
    /\ d # director_input
    /\ director_input' = d
    /\ UNCHANGED <<budget, genres_input, actors_input, release_month>>
    /\ Rerender

SelectMonth(m) ==
    /\ m \in Months
    /\ m # release_month
    /\ release_month' = m
    /\ UNCHANGED <<budget, genres_input, actors_input, director_input>>
    /\ Rerender

\* the handler of the button, given what the two models return
Handler(pred, prob, rev) ==
    LET ac == ActorCount(actors_input, top_actors)
        kd == KnownDirector(director_input, top_directors)
        ms == Get(monthly_revenue, release_month, Mean(monthly_revenue))
    IN  /\ shown' = TRUE
        /\ actor_count' = ac
        /\ known_director' = kd
        /\ input_success' = InputSuccess(budget, release_month, genres_input,
                                ac, kd, monthly_revenue, genre_classes_success)
        /\ input_revenue' = InputRevenue(budget, release_month, genres_input,
                                ac, kd, monthly_revenue, genre_classes_revenue)
        /\ success_pred' = pred
        /\ success_prob' = prob
        /\ predicted_revenue' = rev
        /\ month_strength' = ms
        /\ reasons' = Reasons(pred, budget, release_month, ms,
                              Mean(monthly_revenue), ac, kd)
        /\ suggestions_header' = SuggestionsShown(prob)
        /\ suggestions' = Suggestions(prob, budget, ms, monthly_revenue, ac, kd)
        /\ UNCHANGED <<artifacts, form>>

Predict ==
    /\ \E pred \in {0, 1}, prob \in ProbChoices, rev \in RevenueChoices :
           Handler(pred, prob, rev)
    /\ UNCHANGED remembered

Next ==
    \/ \E b \in BudgetChoices : SetBudget(b)
    \/ \E g \in GenreOptions : SelectGenre(g)
    \/ \E g \in GenreOptions : DeselectGenre(g)
    \/ \E a \in ActorsDropdown : SelectActor(a)
    \/ \E a \in ActorsDropdown : DeselectActor(a)
    \/ \E d \in DirectorDropdown : SelectDirector(d)
    \/ \E m \in Months : SelectMonth(m)
    \/ Predict

Spec == Init /\ [][Next]_vars

\* The frame specification: the same operations over reduced domains, with
\* one earlier submission kept in the history variable.
InitFrame ==
    /\ LoadArtifacts({TableTied})
    /\ FormDefaults
    /\ NoResults
    /\ remembered = NoRecord

\* between: a submission with other inputs came after the remembered one
PredictFrame ==
    /\ \E pred \in {0, 1}, prob \in ProbChoices, rev \in FrameRevenues :
           Handler(pred, prob, rev)
    /\ remembered' =
          IF remembered = NoRecord \/ SubmissionInputs' = remembered.inputs
          THEN remembered
          ELSE [remembered EXCEPT !.between = TRUE]

PredictRemember ==
    /\ remembered = NoRecord
    /\ \E pred \in {0, 1}, prob \in ProbChoices, rev \in FrameRevenues :
           Handler(pred, prob, rev)
    /\ remembered' = [inputs |-> SubmissionInputs', result |-> SubmissionResult',
                       between |-> FALSE]

NextFrame ==
    \/ \E b \in FrameBudgets : SetBudget(b)
    \/ \E g \in FrameGenres : SelectGenre(g)
    \/ \E g \in FrameGenres : DeselectGenre(g)
    \/ \E a \in FrameActors : SelectActor(a)
    \/ \E a \in FrameActors : DeselectActor(a)
    \/ \E d \in FrameDirectors : SelectDirector(d)
    \/ \E m \in FrameMonths : SelectMonth(m)
    \/ PredictFrame
    \/ PredictRemember

SpecFrame == InitFrame /\ [][NextFrame]_vars

----------------------------------------------------------------------------
\* Vocabulary of the properties

Kinds(seq) == {seq[i].kind : i \in 1..Len(seq)}
NoDuplicates(seq) == Cardinality(Kinds(seq)) = Len(seq)
Range(seq) == {seq[i] : i \in 1..Len(seq)}

MeanStrength == Mean(monthly_revenue)
TableMonths == {monthly_revenue[i][1] : i \in 1..Len(monthly_revenue)}
StrengthOf(m) ==
    LET i == CHOOSE j \in 1..Len(monthly_revenue) : monthly_revenue[j][1] = m
    IN  <<monthly_revenue[i][2], 1>>
ArgMaxMonths ==
    {m \in TableMonths :
        \A k \in TableMonths : ~RatLess(StrengthOf(m), StrengthOf(k))}

WeakBudget == budget < BudgetThreshold
WeakMonth == RatLess(month_strength, MeanStrength)
WeakActors == actor_count < ActorThreshold
WeakDirector == known_director = 0

GenericKinds == {"generic_success", "generic_failure"}
StrongOrder == <<"strong_budget", "strong_month", "strong_actors", "strong_director">>
WeakOrder == <<"weak_budget", "weak_month", "weak_actors", "weak_director">>
IsFactor(s) == s.kind \notin GenericKinds
FactorStatements == SelectSeq(reasons, IsFactor)
Rank(kind) ==
    CHOOSE i \in 1..4 : StrongOrder[i] = kind \/ WeakOrder[i] = kind
InFactorOrder(seq) ==
    \A i, j \in 1..Len(seq) : i < j => Rank(seq[i].kind) < Rank(seq[j].kind)

ValuesOf(vec, c) == {i \in 1..Len(vec) : vec[i].col = c}
ValueOf(vec, c) == vec[CHOOSE i \in 1..Len(vec) : vec[i].col = c].val
ColumnSeq(vec) == [i \in 1..Len(vec) |-> vec[i].col]
ClassSet(classes) == {classes[i] : i \in 1..Len(classes)}
GenreColumnSeq(classes) == [i \in 1..Len(classes) |-> GenreColumn(classes[i])]
AllGenreColumns ==
    {GenreColumn(g) : g \in ClassSet(genre_classes_success)
                            \cup ClassSet(genre_classes_revenue)}
IsGenreEntry(e) == e.col \in AllGenreColumns
RECURSIVE SumVals(_)
SumVals(vec) == IF vec = << >> THEN 0 ELSE Head(vec).val + SumVals(Tail(vec))

----------------------------------------------------------------------------
\* C1: the suggestions on display are exactly those whose trigger holds
\* while success_prob < 0.60 (raise-budget iff budget < 50,000,000,
\* better-month iff month strength < mean, more-actors iff actor_count < 2,
\* better-director iff known_director = 0), each at most once; none is shown
\* at success_prob >= 0.60, and the predicted label plays no part.
C1_SuggestionsIffTriggers ==
    shown =>
        /\ Kinds(suggestions) \subseteq
              {"suggest_budget", "suggest_month", "suggest_actors", "suggest_director"}
        /\ NoDuplicates(suggestions)
        /\ "suggest_budget" \in Kinds(suggestions)
              <=> (success_prob < ProbThreshold /\ WeakBudget)
        /\ "suggest_month" \in Kinds(suggestions)
              <=> (success_prob < ProbThreshold /\ WeakMonth)
        /\ "suggest_actors" \in Kinds(suggestions)
              <=> (success_prob < ProbThreshold /\ WeakActors)
        /\ "suggest_director" \in Kinds(suggestions)
              <=> (success_prob < ProbThreshold /\ WeakDirector)
        /\ success_prob >= ProbThreshold => suggestions = << >>

C1_Witness ==
    /\ shown
    /\ success_pred = 1
    /\ success_prob < ProbThreshold
    /\ Kinds(suggestions) = {"suggest_budget", "suggest_director"}

\* C2: the factor statements of the reasoning list are chosen by the
\* predicted label: under success exactly the strong-factor statements whose
\* condition holds, under failure exactly the weak-factor statements whose
\* condition holds, in the order budget, month, actors, director.
C2_FactorsByLabel ==
    shown =>
        /\ NoDuplicates(FactorStatements)
        /\ InFactorOrder(FactorStatements)
        /\ success_pred = 1 =>
              /\ Kinds(FactorStatements) \subseteq Range(StrongOrder)
              /\ "strong_budget" \in Kinds(reasons) <=> ~WeakBudget
              /\ "strong_month" \in Kinds(reasons) <=> ~WeakMonth
              /\ "strong_actors" \in Kinds(reasons) <=> ~WeakActors
              /\ "strong_director" \in Kinds(reasons) <=> known_director = 1
        /\ success_pred # 1 =>
              /\ Kinds(FactorStatements) \subseteq Range(WeakOrder)
              /\ "weak_budget" \in Kinds(reasons) <=> WeakBudget
              /\ "weak_month" \in Kinds(reasons) <=> WeakMonth
              /\ "weak_actors" \in Kinds(reasons) <=> WeakActors
              /\ "weak_director" \in Kinds(reasons) <=> WeakDirector

C2_Witness ==
    /\ shown
    /\ success_pred = 0
    /\ Len(FactorStatements) = 2
    /\ Kinds(FactorStatements) = {"weak_month", "weak_director"}

\* C3: the generic statement is in the reasoning list iff none of the four
\* conditions of the predicted label's branch holds; then the list is that
\* one statement, and a list with a specific factor statement has no generic
\* statement.
C3_GenericOnlyWhenNoFactor ==
    shown =>
        LET none == IF success_pred = 1
                    THEN WeakBudget /\ WeakMonth /\ WeakActors /\ WeakDirector
                    ELSE ~WeakBudget /\ ~WeakMonth /\ ~WeakActors /\ known_director = 1
            generic == IF success_pred = 1 THEN "generic_success"
                       ELSE "generic_failure"
        IN  /\ (Kinds(reasons) \cap GenericKinds # {}) <=> none
            /\ none => reasons = <<Statement(generic, 0)>>
            /\ FactorStatements # << >> => Kinds(reasons) \cap GenericKinds = {}

\* C4 as stated: actor_count is 0 for the empty selection and for the
\* selection holding only "None"; otherwise it is the number of selected
\* actors of the top-actor list, "None" mixed in or not; always in 0..3.
C4_SentinelAloneZeroes ==
    shown =>
        /\ actor_count \in 0..MaxSelections
        /\ actor_count = IF actors_input = {} \/ actors_input = {"None"}
                         THEN 0
                         ELSE Cardinality(actors_input \cap top_actors)

\* C4 as amended: actor_count is 0 for the empty selection and for every
\* selection that contains "None", alone or beside listed actors; otherwise
\* it is the number of selected actors of the top-actor list; always in 0..3.
C4_SentinelAnywhereZeroes ==
    shown =>
        /\ actor_count \in 0..MaxSelections
        /\ actor_count = IF actors_input = {} \/ "None" \in actors_input
                         THEN 0
                         ELSE Cardinality(actors_input \cap top_actors)

C4_Witness ==
    /\ shown
    /\ actors_input = {"None", "Meryl", "Tom"}
    /\ actor_count = 0

\* C5: in each model's vector every genre indicator is 0 or 1, there is one
\* per genre of that model's vocabulary, it is 1 exactly for the selected
\* genres, and the indicators sum to the number of selected genres of that
\* vocabulary; a selected genre outside the vocabulary adds nothing.
GenresEncoded(vec, classes) ==
    LET entries == SelectSeq(vec, IsGenreEntry)
    IN  /\ \A i \in 1..Len(entries) : entries[i].val \in {0, 1}
        /\ \A g \in ClassSet(classes) :
              /\ Cardinality(ValuesOf(vec, GenreColumn(g))) = 1
              /\ ValueOf(vec, GenreColumn(g)) = 1 <=> g \in genres_input
        /\ SumVals(entries) = Cardinality(genres_input \cap ClassSet(classes))

C5_GenreIndicators ==
    shown =>
        /\ GenresEncoded(input_success, genre_classes_success)
        /\ GenresEncoded(input_revenue, genre_classes_revenue)

C5_Witness ==
    /\ shown
    /\ genres_input = {"Action", "Comedy"}
    /\ "Comedy" \notin ClassSet(genre_classes_revenue)
    /\ SumVals(SelectSeq(input_revenue, IsGenreEntry)) = 1
    /\ SumVals(SelectSeq(input_success, IsGenreEntry)) = 2

\* C6: the month strength is the table's value for the release month when
\* the month is in the table and the table's mean when it is not, and the
\* success vector, the revenue vector and the explainer hold the same value.
C6_MonthStrengthLookup ==
    shown =>
        /\ release_month \in TableMonths =>
              RatEq(month_strength, StrengthOf(release_month))
        /\ release_month \notin TableMonths =>
              RatEq(month_strength, MeanStrength)
        /\ ValueOf(input_success, "release_month_strength") = month_strength
        /\ ValueOf(input_revenue, "release_month_strength") = month_strength

C6_Witness ==
    /\ shown
    /\ release_month \notin TableMonths
    /\ month_strength = <<8, 3>>

\* C7: each model's vector has exactly the columns budget,
\* release_month_strength, one indicator per genre of its own vocabulary,
\* top_actor_count, known_director, in that order, also with no genre
\* selected; the four shared columns hold the same values in both vectors.
SharedColumns == {"budget", "release_month_strength", "top_actor_count", "known_director"}

C7_ExactColumns ==
    shown =>
        /\ ColumnSeq(input_success) =
              <<"budget", "release_month_strength">>
                  \o GenreColumnSeq(genre_classes_success)
                  \o <<"top_actor_count", "known_director">>
        /\ ColumnSeq(input_revenue) =
              <<"budget", "release_month_strength">>
                  \o GenreColumnSeq(genre_classes_revenue)
                  \o <<"top_actor_count", "known_director">>
        /\ \A c \in SharedColumns :
              ValueOf(input_success, c) = ValueOf(input_revenue, c)
        /\ ValueOf(input_success, "budget") = budget
        /\ ValueOf(input_success, "top_actor_count") = actor_count
        /\ ValueOf(input_success, "known_director") = known_director

C7_Witness ==
    /\ shown
    /\ genres_input = {}
    /\ Len(input_success) = 4 + Len(genre_classes_success)
    /\ "genre_Horror" \in Columns(input_revenue)
    /\ "genre_Horror" \notin Columns(input_success)

\* C8: no step modifies the loaded artifacts, and a submission with the
\* same form values and model outputs as an earlier one produces the same
\* feature vectors, reasoning list and suggestions, whatever was submitted
\* in between.
C8_StatelessSubmissions ==
    [][/\ artifacts' = artifacts
       /\ (shown' /\ remembered' # NoRecord
              /\ remembered'.inputs = SubmissionInputs')
             => remembered'.result = SubmissionResult']_vars

C8_Witness ==
    /\ shown
    /\ remembered # NoRecord
    /\ remembered.between
    /\ remembered.inputs = SubmissionInputs

\* C9: a better-month suggestion names an arg-max month of the table, never
\* the selected release month, and a month strictly stronger than the
\* selected one; it is not shown for a release month absent from the table
\* nor for an arg-max month.
C9_BetterMonthIsBetter ==
    shown =>
        \A i \in 1..Len(suggestions) :
            suggestions[i].kind = "suggest_month" =>
                /\ suggestions[i].arg \in ArgMaxMonths
                /\ suggestions[i].arg # release_month
                /\ RatLess(month_strength, StrengthOf(suggestions[i].arg))
                /\ release_month \in TableMonths
                /\ release_month \notin ArgMaxMonths

C9_Witness ==
    /\ shown
    /\ monthly_revenue = TableTied
    /\ release_month = 2
    /\ Statement("suggest_month", 6) \in Range(suggestions)

\* C10: under a failure label with success_prob < 0.60 the suggestions
\* match the weak-factor statements one to one (budget, month, actors,
\* director each in both lists or in neither); when the reasoning list is
\* only the generic failure statement the header is shown with no suggestion.
C10_SuggestionsMirrorWeakFactors ==
    (shown /\ success_pred = 0 /\ success_prob < ProbThreshold) =>
        /\ suggestions_header
        /\ "weak_budget" \in Kinds(reasons) <=> "suggest_budget" \in Kinds(suggestions)
        /\ "weak_month" \in Kinds(reasons) <=> "suggest_month" \in Kinds(suggestions)
        /\ "weak_actors" \in Kinds(reasons) <=> "suggest_actors" \in Kinds(suggestions)
        /\ "weak_director" \in Kinds(reasons) <=> "suggest_director" \in Kinds(suggestions)
        /\ Len(FactorStatements) = Len(suggestions)
        /\ reasons = <<Statement("generic_failure", 0)>> => suggestions = << >>

C10_Witness ==
    /\ shown
    /\ success_pred = 0
    /\ success_prob < ProbThreshold
    /\ reasons = <<Statement("generic_failure", 0)>>
    /\ suggestions_header
    /\ suggestions = << >>

====
